---- MODULE Spec2Model ----
(***************************************************************************)
(* Model of the listing codec of particl-market:                           *)
(*   ListingItemMessageFactory.get      (template -> wire message)         *)
(*   ListingItemFactory.getModel        (wire message -> create request)   *)
(*                                                                         *)
(* JavaScript values are modelled as follows.                              *)
(*   - an object is a function from property names (strings) to values;    *)
(*   - an array is a sequence;                                             *)
(*   - a scalar (string or number) is an opaque string token: the codec    *)
(*     only copies scalars and tests them for truthiness.  A country code  *)
(*     is the exception: the codec prefixes it and takes it apart, so it   *)
(*     is a sequence of one-character strings;                             *)
(*   - the value undefined is Undefined where a scalar is expected,        *)
(*     UndefinedObject where an object is expected and UndefinedArray      *)
(*     where an array is expected.  Reading a property an object does not  *)
(*     have yields undefined;                                              *)
(*   - an async function returns Ok(value) or Err(exception).              *)
(***************************************************************************)
EXTENDS Naturals, Sequences, FiniteSets, TLC

VARIABLES
    pc,         \* position of the modelled call: see Init
    template,   \* the ListingItemTemplate given to ListingItemMessageFactory.get
    store,      \* the (imageHash, imageVersion) pairs loadImageFile can load
    categoryOk, \* whether the category factory resolves the category
    composed,   \* what ListingItemMessageFactory.get returned
    calls,      \* the loadImageFile calls issued so far, in order
    received,   \* the arguments of ListingItemFactory.getModel
    request,    \* what ListingItemFactory.getModel returned
    unitIn,     \* the argument of a sub-transformer applied on its own
    unitOut,    \* what that sub-transformer returned
    tasks,      \* the calls of get and getModel in progress at once: their locals
    contentReferences   \* the arrays the calls of getMessageInformationImages fill

vars == <<pc, template, store, categoryOk, composed, calls, received, request, unitIn, unitOut,
          tasks, contentReferences>>

----------------------------------------------------------------------------
(* JavaScript values *)

Undefined == "undefined"
UndefinedObject == [undefined |-> TRUE]
UndefinedArray == <<UndefinedObject>>

Has(o, f) == f \in DOMAIN o

\* o.f for a scalar property
Get(o, f) == IF Has(o, f) THEN o[f] ELSE Undefined

\* o.f for an object or array property
GetObject(o, f) == IF Has(o, f) THEN o[f] ELSE UndefinedObject

\* if (v) for a scalar v
Truthy(v) == v # Undefined /\ v # ""

\* if (o) for an object o
TruthyObject(o) == o # UndefinedObject

\* _.isEmpty(o) for an object o: undefined and {} are empty
IsEmpty(o) == o = UndefinedObject \/ DOMAIN o = {}

\* the object with the one property f, or with none when cond is false
Prop(cond, f, v) == IF cond THEN f :> v ELSE <<>>

Ok(v) == [ok |-> TRUE, val |-> v]
Err(e) == [ok |-> FALSE, err |-> e]

TypeError(at) == [exception |-> "TypeError", thrownBy |-> at]
ImagePayloadMissing == [exception |-> "MessageException", thrownBy |-> "getMessageItemInfoImageData"]
UnsupportedSaleType == [exception |-> "NotImplementedException", thrownBy |-> "getMessagePayment"]
UnsupportedObjectType == [exception |-> "NotImplementedException", thrownBy |-> "getItemObject"]
PayloadResolutionFailed == [exception |-> "PayloadResolutionFailed", thrownBy |-> "loadImageFile"]
CategoryResolutionFailed == [exception |-> "CategoryResolutionFailed", thrownBy |-> "itemCategoryFactory"]

\* _.find(itemImageDatas, imageData => imageData.imageVersion === version): the
\* index of the first such element, 0 when there is none
FindVersion(s, version) ==
    IF \E i \in 1..Len(s) : Get(s[i], "imageVersion") = version
    THEN CHOOSE i \in 1..Len(s) :
            /\ Get(s[i], "imageVersion") = version
            /\ \A j \in 1..(i - 1) : Get(s[j], "imageVersion") # version
    ELSE 0

\* for (const x of v) on a value that is no array throws a TypeError
IsArray(v) ==
    \A k \in DOMAIN v : ToString(k) \in {ToString(n) : n \in 1..Cardinality(DOMAIN v)}
Iterable(v) == IsArray(v)

\* a loop awaiting one result per element: the first failure, else all the values
Sequentially(results) ==
    IF \E i \in 1..Len(results) : ~results[i].ok
    THEN results[CHOOSE i \in 1..Len(results) :
                    ~results[i].ok /\ \A j \in 1..(i - 1) : results[j].ok]
    ELSE Ok([i \in 1..Len(results) |-> results[i].val])


----------------------------------------------------------------------------
(* ListingItemMessageFactory: template -> wire message *)

SHIPS == "SHIPS"
DOES_NOT_SHIP == "DOES_NOT_SHIP"

RECURSIVE getMessageItemInfoShippingDestinations(_)
getMessageItemInfoShippingDestinations(shippingDestinations) ==
    IF shippingDestinations = <<>> THEN <<>>
    ELSE LET destination == Head(shippingDestinations)
             rest == getMessageItemInfoShippingDestinations(Tail(shippingDestinations))
         IN  IF destination.shippingAvailability = SHIPS
               THEN <<destination.country>> \o rest
             ELSE IF destination.shippingAvailability = DOES_NOT_SHIP
               THEN <<(<<"-">> \o destination.country)>> \o rest
             ELSE rest

\* the location with a gps object emitted whether or not there is a marker
getMessageItemInfoLocationAlwaysGps(itemLocation) ==
    LET locationMarker == GetObject(itemLocation, "LocationMarker")
    IN  Prop(Truthy(Get(itemLocation, "region")), "country", Get(itemLocation, "region"))
          @@ Prop(Truthy(Get(itemLocation, "address")), "address", Get(itemLocation, "address"))
          @@ [gps |-> Prop(TruthyObject(locationMarker), "lng", Get(locationMarker, "lng"))
                        @@ Prop(TruthyObject(locationMarker), "lat", Get(locationMarker, "lat"))]

getMessageItemInfoLocation(itemLocation) ==
    LET locationMarker == GetObject(itemLocation, "LocationMarker")
        gps == [lng |-> Get(locationMarker, "lng"), lat |-> Get(locationMarker, "lat")]
                 @@ Prop(Truthy(Get(locationMarker, "markerTitle")), "marker_title",
                         Get(locationMarker, "markerTitle"))
                 @@ Prop(Truthy(Get(locationMarker, "markerText")), "marker_text",
                         Get(locationMarker, "markerText"))
    IN  Prop(Truthy(Get(itemLocation, "region")), "country", Get(itemLocation, "region"))
          @@ Prop(Truthy(Get(itemLocation, "address")), "address", Get(itemLocation, "address"))
          @@ Prop(TruthyObject(locationMarker), "gps", gps)

\* ItemImageDataService.loadImageFile: the stored file, or a failure when the
\* store does not hold it
loadImageFile(loadable, imageHash, imageVersion) ==
    IF <<imageHash, imageVersion>> \in loadable
    THEN Ok(<<imageHash, imageVersion>>)
    ELSE Err(PayloadResolutionFailed)

RESIZED == "RESIZED"
ORIGINAL == "ORIGINAL"


\* the selection with the ORIGINAL version looked for first
SelectedImageDataOriginalFirst(itemImageDatas) ==
    IF FindVersion(itemImageDatas, ORIGINAL) # 0
    THEN FindVersion(itemImageDatas, ORIGINAL)
    ELSE FindVersion(itemImageDatas, RESIZED)

\* the index in itemImageDatas of selectedImageData, 0 when the MessageException
\* is thrown
SelectedImageData(itemImageDatas) ==
    IF FindVersion(itemImageDatas, RESIZED) # 0
    THEN FindVersion(itemImageDatas, RESIZED)
    ELSE FindVersion(itemImageDatas, ORIGINAL)

\* the DSN list built from the selected variant and from what loadImageFile
\* returned for it, with the call made
SelectedImageDsns(selectedImageData, data) ==
    [res |-> IF ~data.ok THEN Err(data.err)
             ELSE Ok(<<[protocol |-> Get(selectedImageData, "protocol"),
                        encoding |-> Get(selectedImageData, "encoding"),
                        data |-> data.val,
                        id |-> Get(selectedImageData, "dataId")]>>),
     calls |-> <<[imageHash |-> selectedImageData.imageHash,
                  imageVersion |-> selectedImageData.imageVersion]>>]

\* returns the result and the loadImageFile calls made
getMessageItemInfoImageData(itemImageDatas, loadable) ==
    IF SelectedImageData(itemImageDatas) = 0
    THEN [res |-> Err(ImagePayloadMissing), calls |-> <<>>]
    ELSE SelectedImageDsns(
             itemImageDatas[SelectedImageData(itemImageDatas)],
             loadImageFile(loadable,
                           itemImageDatas[SelectedImageData(itemImageDatas)].imageHash,
                           itemImageDatas[SelectedImageData(itemImageDatas)].imageVersion))

\* the turn that leaves out an image whose data could not be built
PushContentReferenceSkipsFailure(image, imageData, rest) ==
    IF ~imageData.res.ok THEN [res |-> rest.res, calls |-> imageData.calls \o rest.calls]
    ELSE [res |-> IF rest.res.ok
                  THEN Ok(<<[hash |-> Get(image, "hash"),
                             data |-> imageData.res.val,
                             featured |-> Get(image, "featured")]>> \o rest.res.val)
                  ELSE rest.res,
          calls |-> imageData.calls \o rest.calls]

\* the turn that goes on to the later images after a failure
PushContentReferenceKeepsCalling(image, imageData, rest) ==
    IF ~imageData.res.ok
    THEN [res |-> imageData.res, calls |-> imageData.calls \o rest.calls]
    ELSE [res |-> IF rest.res.ok
                  THEN Ok(<<[hash |-> Get(image, "hash"),
                             data |-> imageData.res.val,
                             featured |-> Get(image, "featured")]>> \o rest.res.val)
                  ELSE rest.res,
          calls |-> imageData.calls \o rest.calls]

\* one turn of the loop of getMessageInformationImages: imageData is what
\* getMessageItemInfoImageData returned for image, rest what the later turns return
PushContentReference(image, imageData, rest) ==
    IF ~imageData.res.ok THEN imageData
    ELSE [res |-> IF rest.res.ok
                  THEN Ok(<<[hash |-> Get(image, "hash"),
                             data |-> imageData.res.val,
                             featured |-> Get(image, "featured")]>> \o rest.res.val)
                  ELSE rest.res,
          calls |-> imageData.calls \o rest.calls]

\* the images are taken in order; the first failure ends the loop
RECURSIVE getMessageInformationImages(_, _)
getMessageInformationImages(images, loadable) ==
    IF images = <<>> THEN [res |-> Ok(<<>>), calls |-> <<>>]
    ELSE PushContentReference(
             Head(images),
             getMessageItemInfoImageData(Head(images).ItemImageDatas, loadable),
             getMessageInformationImages(Tail(images), loadable))

\* ItemCategoryFactory.getArray: the path of the category, or a failure
getArray(itemCategory, resolves) ==
    IF resolves THEN Ok(itemCategory) ELSE Err(CategoryResolutionFailed)

\* the ItemInfo built from the results of the four awaited calls
ItemInfoOf(itemInformation, category, itemLocation, images) ==
    IF ~category.ok THEN [res |-> category, calls |-> <<>>]
    ELSE IF itemLocation = UndefinedObject
      THEN [res |-> Err(TypeError("getMessageItemInfoLocation")), calls |-> <<>>]
    ELSE IF ~images.res.ok THEN images
    ELSE [res |-> Ok([title |-> Get(itemInformation, "title"),
                      shortDescription |-> Get(itemInformation, "shortDescription"),
                      longDescription |-> Get(itemInformation, "longDescription"),
                      category |-> category.val,
                      location |-> getMessageItemInfoLocation(itemLocation),
                      shippingDestinations |->
                          getMessageItemInfoShippingDestinations(
                              itemInformation.ShippingDestinations),
                      images |-> images.res.val]),
          calls |-> images.calls]

getMessageItemInfo(itemInformation, loadable, resolves) ==
    ItemInfoOf(itemInformation,
               getArray(Get(itemInformation, "ItemCategory"), resolves),
               GetObject(itemInformation, "ItemLocation"),
               getMessageInformationImages(itemInformation.ItemImages, loadable))

getMessageEscrow(escrow) ==
    IF escrow = UndefinedObject \/ GetObject(escrow, "Ratio") = UndefinedObject
    THEN Err(TypeError("getMessageEscrow"))
    ELSE Ok([type |-> Get(escrow, "type"),
             ratio |-> [buyer |-> Get(escrow.Ratio, "buyer"),
                        seller |-> Get(escrow.Ratio, "seller")]])

getMessagePaymentOptions(itemPrice) ==
    IF itemPrice = UndefinedObject \/ GetObject(itemPrice, "ShippingPrice") = UndefinedObject
    THEN Err(TypeError("getMessagePaymentOptions"))
    ELSE LET cryptocurrencyAddress == GetObject(itemPrice, "CryptocurrencyAddress")
             address == IF ~IsEmpty(cryptocurrencyAddress)
                        THEN [type |-> Get(cryptocurrencyAddress, "type"),
                              address |-> Get(cryptocurrencyAddress, "address")]
                        ELSE UndefinedObject
         IN  Ok(<<[currency |-> Get(itemPrice, "currency"),
                   basePrice |-> Get(itemPrice, "basePrice"),
                   shippingPrice |->
                       [domestic |-> Get(itemPrice.ShippingPrice, "domestic"),
                        international |-> Get(itemPrice.ShippingPrice, "international")],
                   address |-> address]>>)

SALE == "SALE"

\* the switch of getMessagePayment on the sale type, reached with escrow and
\* options already built
PaymentInfoOf(paymentInformation, escrow, options) ==
    IF ~escrow.ok THEN escrow
    ELSE IF ~options.ok THEN options
    ELSE IF Get(paymentInformation, "type") = SALE
      THEN Ok([type |-> paymentInformation.type,
               escrow |-> escrow.val,
               options |-> options.val])
    ELSE Err(UnsupportedSaleType)

getMessagePayment(paymentInformation) ==
    PaymentInfoOf(paymentInformation,
                  getMessageEscrow(GetObject(paymentInformation, "Escrow")),
                  getMessagePaymentOptions(GetObject(paymentInformation, "ItemPrice")))

getMessageMessaging(messagingInformations) ==
    [options |-> [i \in 1..Len(messagingInformations) |->
                    [protocol |-> Get(messagingInformations[i], "protocol"),
                     publicKey |-> Get(messagingInformations[i], "publicKey")]]]

getObjectDataOptions(objectDatas) ==
    [i \in 1..Len(objectDatas) |->
        [key |-> Get(objectDatas[i], "key"), value |-> Get(objectDatas[i], "value")]]

getItemObject(value) ==
    IF Get(value, "type") = "TABLE"
      THEN Ok([type |-> "TABLE",
               description |-> Get(value, "description"),
               table |-> getObjectDataOptions(value.ListingItemObjectDatas)])
    ELSE IF Get(value, "type") = "DROPDOWN"
      THEN Ok([type |-> "DROPDOWN",
               description |-> Get(value, "description"),
               objectId |-> Get(value, "objectId"),
               forceInput |-> Get(value, "forceInput"),
               options |-> getObjectDataOptions(value.ListingItemObjectDatas)])
    ELSE Err(UnsupportedObjectType)

\* the objects are taken in order; the first failure ends the loop
getMessageObjects(listingItemObjects) ==
    Sequentially([i \in 1..Len(listingItemObjects) |-> getItemObject(listingItemObjects[i])])

MPA_LISTING_ADD == "MPA_LISTING_ADD"

\* the MPA_LISTING_ADD built from the results of the four awaited calls
MpaOf(params, information, payment, messaging, objects) ==
    IF ~information.res.ok THEN information
    ELSE IF ~payment.ok THEN [res |-> payment, calls |-> information.calls]
    ELSE IF ~objects.ok THEN [res |-> objects, calls |-> information.calls]
    ELSE [res |-> Ok([type |-> MPA_LISTING_ADD,
                      item |-> [information |-> information.res.val,
                                payment |-> payment.val,
                                messaging |-> messaging,
                                objects |-> objects.val],
                      hash |-> Get(params.template, "hash")]),
          calls |-> information.calls]

\* ListingItemMessageFactory.get: the result and the loadImageFile calls made
get(params, loadable, resolves) ==
    MpaOf(params,
          getMessageItemInfo(params.template.ItemInformation, loadable, resolves),
          getMessagePayment(params.template.PaymentInformation),
          getMessageMessaging(params.template.MessagingInformation),
          getMessageObjects(params.template.ListingItemObjects))

----------------------------------------------------------------------------
(* ListingItemFactory: wire message -> create request *)

\* the members of the enum MessagingProtocolType
MessagingProtocolTypes == {"SMSG"}

\* MessagingProtocolType[token]
MessagingProtocolType(token) == IF token \in MessagingProtocolTypes THEN token ELSE Undefined

\* the TABLE rows read as the DROPDOWN rows are, by name
getModelObjectDataForTypeTableReadsName(objectDatas) ==
    IF ~Iterable(objectDatas) THEN Err(TypeError("getModelObjectDataForTypeTable"))
    ELSE Ok([i \in 1..Len(objectDatas) |->
                [key |-> Get(objectDatas[i], "name"), value |-> Get(objectDatas[i], "value")]])

getModelObjectDataForTypeTable(objectDatas) ==
    IF ~Iterable(objectDatas) THEN Err(TypeError("getModelObjectDataForTypeTable"))
    ELSE Ok([i \in 1..Len(objectDatas) |->
                [key |-> Get(objectDatas[i], "key"), value |-> Get(objectDatas[i], "value")]])

getModelObjectDataForTypeDropDown(objectDatas) ==
    IF ~Iterable(objectDatas) THEN Err(TypeError("getModelObjectDataForTypeDropDown"))
    ELSE Ok([i \in 1..Len(objectDatas) |->
                [key |-> Get(objectDatas[i], "name"), value |-> Get(objectDatas[i], "value")]])

\* one turn of the loop of getModelListingItemObjects
getModelListingItemObject(object) ==
    LET objectData ==
            IF Get(object, "type") = "TABLE"
              THEN getModelObjectDataForTypeTable(GetObject(object, "table"))
            ELSE IF Get(object, "type") = "DROPDOWN"
              THEN getModelObjectDataForTypeDropDown(GetObject(object, "options"))
            ELSE Ok(UndefinedArray)
    IN  IF ~objectData.ok THEN objectData
        ELSE Ok([type |-> Get(object, "type"),
                 description |-> Get(object, "title"),
                 listingItemObjectDatas |-> objectData.val])

getModelListingItemObjects(objects) ==
    IF ~Iterable(objects) THEN Err(TypeError("getModelListingItemObjects"))
    ELSE Sequentially([i \in 1..Len(objects) |-> getModelListingItemObject(objects[i])])

getModelMessagingInformation(messaging) ==
    IF ~Iterable(messaging) THEN Err(TypeError("getModelMessagingInformation"))
    ELSE Ok([i \in 1..Len(messaging) |->
                [protocol |-> MessagingProtocolType(Get(messaging[i], "protocol")),
                 publicKey |-> Get(messaging[i], "public_key")]])

getModelShippingPrice(shippingPrice) ==
    IF shippingPrice = UndefinedObject THEN Err(TypeError("getModelShippingPrice"))
    ELSE Ok([domestic |-> Get(shippingPrice, "domestic"),
             international |-> Get(shippingPrice, "international")])

getModelCryptocurrencyAddress(cryptocurrencyAddress) ==
    [type |-> Get(cryptocurrencyAddress, "type"),
     address |-> Get(cryptocurrencyAddress, "address")]

getModelItemPrice(cryptocurrency) ==
    IF ~Iterable(cryptocurrency) \/ cryptocurrency = <<>>
    THEN Err(TypeError("getModelItemPrice"))
    ELSE LET shippingPrice == getModelShippingPrice(GetObject(cryptocurrency[1], "shipping_price"))
             address == GetObject(cryptocurrency[1], "address")
         IN  IF ~shippingPrice.ok THEN shippingPrice
             ELSE Ok([currency |-> Get(cryptocurrency[1], "currency"),
                      basePrice |-> Get(cryptocurrency[1], "base_price"),
                      shippingPrice |-> shippingPrice.val,
                      cryptocurrencyAddress |->
                          IF ~IsEmpty(address) THEN getModelCryptocurrencyAddress(address)
                          ELSE UndefinedObject])

getModelEscrowRatio(ratio) ==
    IF ratio = UndefinedObject THEN Err(TypeError("getModelEscrowRatio"))
    ELSE Ok([buyer |-> Get(ratio, "buyer"), seller |-> Get(ratio, "seller")])

getModelEscrow(escrow) ==
    IF escrow = UndefinedObject THEN Err(TypeError("getModelEscrow"))
    ELSE LET ratio == getModelEscrowRatio(GetObject(escrow, "ratio"))
         IN  IF ~ratio.ok THEN ratio
             ELSE Ok([type |-> Get(escrow, "type"), ratio |-> ratio.val])

getModelPaymentInformation(payment) ==
    IF payment = UndefinedObject THEN Err(TypeError("getModelPaymentInformation"))
    ELSE LET escrow == getModelEscrow(GetObject(payment, "escrow"))
             itemPrice == getModelItemPrice(GetObject(payment, "cryptocurrency"))
         IN  IF ~escrow.ok THEN escrow
             ELSE IF ~itemPrice.ok THEN itemPrice
             ELSE Ok([type |-> Get(payment, "type"),
                      escrow |-> escrow.val,
                      itemPrice |-> itemPrice.val])

getModelLocationMarker(gps) ==
    [lat |-> Get(gps, "lat"), lng |-> Get(gps, "lng")]
      @@ Prop(Truthy(Get(gps, "marker_title")), "markerTitle", Get(gps, "marker_title"))
      @@ Prop(Truthy(Get(gps, "marker_text")), "markerText", Get(gps, "marker_text"))

getModelLocation(location) ==
    IF location = UndefinedObject THEN Err(TypeError("getModelLocation"))
    ELSE Ok(Prop(Truthy(Get(location, "country")), "region", Get(location, "country"))
              @@ Prop(Truthy(Get(location, "address")), "address", Get(location, "address"))
              @@ Prop(TruthyObject(GetObject(location, "gps")), "locationMarker",
                      getModelLocationMarker(GetObject(location, "gps"))))

\* destination.charAt(0) and destination.substring(1) of a string of characters
CharAt0(destination) == IF destination = <<>> THEN "" ELSE Head(destination)
Substring1(destination) == IF destination = <<>> THEN <<>> ELSE Tail(destination)

\* the turn with the sign left in the country
getModelShippingDestinationKeepsSign(destination) ==
    IF CharAt0(destination) = "-"
    THEN [country |-> destination, shippingAvailability |-> DOES_NOT_SHIP]
    ELSE [country |-> destination, shippingAvailability |-> SHIPS]

\* one turn of the loop of getModelShippingDestinations
getModelShippingDestination(destination) ==
    IF CharAt0(destination) = "-"
    THEN [country |-> Substring1(destination), shippingAvailability |-> DOES_NOT_SHIP]
    ELSE [country |-> destination, shippingAvailability |-> SHIPS]

getModelShippingDestinations(shippingDestinations) ==
    IF ~Iterable(shippingDestinations) THEN Err(TypeError("getModelShippingDestinations"))
    ELSE Ok([i \in 1..Len(shippingDestinations) |->
                getModelShippingDestination(shippingDestinations[i])])

\* the data records with only the first payload entry read
getModelImageDatasFirstOnly(imageDatas) ==
    IF ~Iterable(imageDatas) \/ imageDatas = <<>> THEN Err(TypeError("getModelImageDatas"))
    ELSE Ok(<<[dataId |-> Get(imageDatas[1], "id"),
               protocol |-> Get(imageDatas[1], "protocol"),
               imageVersion |-> ORIGINAL,
               encoding |-> Get(imageDatas[1], "encoding"),
               data |-> Get(imageDatas[1], "data")]>>)

getModelImageDatas(imageDatas) ==
    IF ~Iterable(imageDatas) THEN Err(TypeError("getModelImageDatas"))
    ELSE Ok([i \in 1..Len(imageDatas) |->
                [dataId |-> Get(imageDatas[i], "id"),
                 protocol |-> Get(imageDatas[i], "protocol"),
                 imageVersion |-> ORIGINAL,
                 encoding |-> Get(imageDatas[i], "encoding"),
                 data |-> Get(imageDatas[i], "data")]])

\* one turn of the loop of getModelImages
getModelImage(image) ==
    LET datas == getModelImageDatas(GetObject(image, "data"))
    IN  IF ~datas.ok THEN datas
        ELSE Ok([hash |-> Get(image, "hash"), datas |-> datas.val])

getModelImages(images) ==
    IF ~Iterable(images) THEN Err(TypeError("getModelImages"))
    ELSE Sequentially([i \in 1..Len(images) |-> getModelImage(images[i])])

\* ItemCategoryFactory.getModel: the category of the path, or a failure
getModelCategory(category, rootCategory, resolves) ==
    IF resolves THEN Ok(category) ELSE Err(CategoryResolutionFailed)

getModelItemInformation(information, rootCategory, resolves) ==
    IF information = UndefinedObject THEN Err(TypeError("getModelItemInformation"))
    ELSE LET itemCategory == getModelCategory(Get(information, "category"), rootCategory, resolves)
             itemLocation == getModelLocation(GetObject(information, "location"))
             shippingDestinations ==
                 getModelShippingDestinations(GetObject(information, "shipping_destinations"))
             itemImages == getModelImages(GetObject(information, "images"))
         IN  IF ~itemCategory.ok THEN itemCategory
             ELSE IF ~itemLocation.ok THEN itemLocation
             ELSE IF ~shippingDestinations.ok THEN shippingDestinations
             ELSE IF ~itemImages.ok THEN itemImages
             ELSE Ok([title |-> Get(information, "title"),
                      shortDescription |-> Get(information, "short_description"),
                      longDescription |-> Get(information, "long_description"),
                      itemCategory |-> itemCategory.val,
                      itemLocation |-> itemLocation.val,
                      shippingDestinations |-> shippingDestinations.val,
                      itemImages |-> itemImages.val])

\* getModel with the time of reception taken for the time of posting
getModelPostedWhenReceived(listingItemMessage, smsgMessage, marketId, rootCategory, resolves) ==
    LET itemInformation ==
            getModelItemInformation(GetObject(listingItemMessage, "information"),
                                    rootCategory, resolves)
        paymentInformation == getModelPaymentInformation(GetObject(listingItemMessage, "payment"))
        messagingInformation ==
            getModelMessagingInformation(GetObject(listingItemMessage, "messaging"))
        listingItemObjects == getModelListingItemObjects(GetObject(listingItemMessage, "objects"))
    IN  IF ~itemInformation.ok THEN itemInformation
        ELSE IF ~paymentInformation.ok THEN paymentInformation
        ELSE IF ~messagingInformation.ok THEN messagingInformation
        ELSE IF ~listingItemObjects.ok THEN listingItemObjects
        ELSE Ok([hash |-> Get(listingItemMessage, "hash"),
                 seller |-> Get(smsgMessage, "from"),
                 market_id |-> marketId,
                 expiryTime |-> Get(smsgMessage, "daysretention"),
                 postedAt |-> Get(smsgMessage, "received"),
                 expiredAt |-> Get(smsgMessage, "expiration"),
                 receivedAt |-> Get(smsgMessage, "received"),
                 itemInformation |-> itemInformation.val,
                 paymentInformation |-> paymentInformation.val,
                 messagingInformation |-> messagingInformation.val,
                 listingItemObjects |-> listingItemObjects.val])

getModel(listingItemMessage, smsgMessage, marketId, rootCategory, resolves) ==
    LET itemInformation ==
            getModelItemInformation(GetObject(listingItemMessage, "information"),
                                    rootCategory, resolves)
        paymentInformation == getModelPaymentInformation(GetObject(listingItemMessage, "payment"))
        messagingInformation ==
            getModelMessagingInformation(GetObject(listingItemMessage, "messaging"))
        listingItemObjects == getModelListingItemObjects(GetObject(listingItemMessage, "objects"))
    IN  IF ~itemInformation.ok THEN itemInformation
        ELSE IF ~paymentInformation.ok THEN paymentInformation
        ELSE IF ~messagingInformation.ok THEN messagingInformation
        ELSE IF ~listingItemObjects.ok THEN listingItemObjects
        ELSE Ok([hash |-> Get(listingItemMessage, "hash"),
                 seller |-> Get(smsgMessage, "from"),
                 market_id |-> marketId,
                 expiryTime |-> Get(smsgMessage, "daysretention"),
                 postedAt |-> Get(smsgMessage, "sent"),
                 expiredAt |-> Get(smsgMessage, "expiration"),
                 receivedAt |-> Get(smsgMessage, "received"),
                 itemInformation |-> itemInformation.val,
                 paymentInformation |-> paymentInformation.val,
                 messagingInformation |-> messagingInformation.val,
                 listingItemObjects |-> listingItemObjects.val])

----------------------------------------------------------------------------
(* The inputs *)

MaxDestinations == 2
MaxImages == 2
MaxImageDatas == 2
MaxObjects == 2
MaxObjectDatas == 2
MaxMessaging == 2

SeqsUpTo(S, n) == UNION {[1..k -> S] : k \in 0..n}

\* the empty string, two country codes, and a string that starts with the sign
Countries == {<<>>, <<"U", "S">>, <<"C", "N">>, <<"-", "X">>}
ShippingAvailabilities == {SHIPS, DOES_NOT_SHIP, "ASK"}
ShippingDestinations ==
    [country : Countries, shippingAvailability : ShippingAvailabilities]
ShippingDestinationLists == SeqsUpTo(ShippingDestinations, MaxDestinations)

OptionalScalar(f, values) == {<<>>} \cup {f :> v : v \in values}
Merge(A, B) == {a @@ b : a \in A, b \in B}

LocationMarkers ==
    Merge({[lat |-> "60.1", lng |-> "24.9"]},
          Merge(OptionalScalar("markerTitle", {"", "Helsinki"}),
                OptionalScalar("markerText", {"", "the shop"})))
ItemLocations ==
    Merge(OptionalScalar("region", {"", "FI"}),
          Merge(OptionalScalar("address", {"", "Main street 1"}),
                {<<>>} \cup {[LocationMarker |-> m] : m \in LocationMarkers}))

ImageVersionNames == {RESIZED, ORIGINAL, "THUMBNAIL"}
ImageHashes == {"h1", "h2"}
ItemImageData(hash, version, dataId) ==
    [imageVersion |-> version, imageHash |-> hash, protocol |-> "LOCAL",
     encoding |-> "BASE64", dataId |-> dataId]
ItemImageDataLists(hash) ==
    SeqsUpTo({ItemImageData(hash, v, d) : v \in ImageVersionNames, d \in {"d1", "d2"}},
             MaxImageDatas)
Stores == SUBSET (ImageHashes \X {RESIZED, ORIGINAL})

\* the images of a template: stored with the ORIGINAL alone, with the ORIGINAL
\* and the RESIZED version, or with a THUMBNAIL alone
ItemImageDatasOf(h) ==
    {<<ItemImageData(h, ORIGINAL, "d1")>>,
     <<ItemImageData(h, ORIGINAL, "d1"), ItemImageData(h, RESIZED, "d2")>>,
     <<ItemImageData(h, "THUMBNAIL", "d1")>>}
ItemImages ==
    UNION {{[hash |-> h, featured |-> "false", ItemImageDatas |-> datas] :
                datas \in ItemImageDatasOf(h)} : h \in ImageHashes}
ItemImageLists == SeqsUpTo(ItemImages, MaxImages)

CryptocurrencyAddresses == {[type |-> "STEALTH", address |-> "addr1"]}
ItemPrices ==
    Merge({[currency |-> "PART", basePrice |-> "10",
            ShippingPrice |-> [domestic |-> "1", international |-> "2"]]},
          {<<>>, [CryptocurrencyAddress |-> <<>>]}
            \cup {[CryptocurrencyAddress |-> a] : a \in CryptocurrencyAddresses})
Escrows == {[type |-> "MAD", Ratio |-> [buyer |-> "100", seller |-> "100"]]}
SaleTypes == {SALE, "AUCTION", "FREE", "RENT", "WANTED", "BARTER"}
PaymentInformations ==
    Merge({[type |-> t] : t \in SaleTypes},
          Merge({<<>>} \cup {[Escrow |-> e] : e \in Escrows},
                {<<>>} \cup {[ItemPrice |-> p] : p \in ItemPrices}))

MessagingInformations ==
    [protocol : {"SMSG"}, publicKey : {"pk1", "pk2"}]
MessagingInformationLists == SeqsUpTo(MessagingInformations, MaxMessaging)

ListingItemObjectDatas == {[key |-> "colour", value |-> "red"], [key |-> "size", value |-> "XL"]}
ListingItemObjectDataLists == SeqsUpTo(ListingItemObjectDatas, MaxObjectDatas)
ObjectTypes == {"TABLE", "DROPDOWN", "CHECKBOX"}
ListingItemObjects ==
    {[type |-> t, description |-> "choose", objectId |-> "o1", forceInput |-> "false",
      ListingItemObjectDatas |-> datas] :
        t \in ObjectTypes, datas \in ListingItemObjectDataLists}

ItemInformation(itemLocation, shippingDestinations, itemImages) ==
    [title |-> "Bike", shortDescription |-> "A bike", longDescription |-> "A red bike",
     ItemCategory |-> "cat_bikes", ItemLocation |-> itemLocation,
     ShippingDestinations |-> shippingDestinations, ItemImages |-> itemImages]

ListingItemTemplate(itemInformation, paymentInformation, messagingInformation, objects) ==
    [hash |-> "templatehash", ItemInformation |-> itemInformation,
     PaymentInformation |-> paymentInformation,
     MessagingInformation |-> messagingInformation,
     ListingItemObjects |-> objects]

DefaultLocation ==
    [region |-> "FI", address |-> "Main street 1",
     LocationMarker |-> [lat |-> "60.1", lng |-> "24.9", markerTitle |-> "Helsinki"]]
DefaultShipping ==
    <<[country |-> <<"U", "S">>, shippingAvailability |-> SHIPS],
      [country |-> <<"C", "N">>, shippingAvailability |-> DOES_NOT_SHIP]>>
DefaultImages ==
    <<[hash |-> "h1", featured |-> "false",
       ItemImageDatas |-> <<ItemImageData("h1", ORIGINAL, "d1"),
                            ItemImageData("h1", RESIZED, "d2")>>]>>
DefaultPayment ==
    [type |-> SALE,
     Escrow |-> [type |-> "MAD", Ratio |-> [buyer |-> "100", seller |-> "100"]],
     ItemPrice |-> [currency |-> "PART", basePrice |-> "10",
                    ShippingPrice |-> [domestic |-> "1", international |-> "2"],
                    CryptocurrencyAddress |-> [type |-> "STEALTH", address |-> "addr1"]]]
DefaultMessaging == <<[protocol |-> "SMSG", publicKey |-> "pk1"]>>
DefaultObjectDatas == <<[key |-> "colour", value |-> "red"], [key |-> "size", value |-> "XL"]>>
DefaultObject(t) ==
    [type |-> t, description |-> "choose", objectId |-> "o1", forceInput |-> "false",
     ListingItemObjectDatas |-> DefaultObjectDatas]
DefaultObjects == <<DefaultObject("TABLE"), DefaultObject("DROPDOWN")>>
FullStore == ImageHashes \X {RESIZED, ORIGINAL}

\* the calls of ListingItemMessageFactory.get that are explored: the template, the
\* image store and the category factory
ImageScenarios ==
    {[template |-> ListingItemTemplate(ItemInformation(DefaultLocation, DefaultShipping, imgs),
                                       DefaultPayment, DefaultMessaging, DefaultObjects),
      store |-> st, categoryOk |-> c] :
        imgs \in ItemImageLists, st \in Stores, c \in BOOLEAN}
PaymentScenarios ==
    {[template |-> ListingItemTemplate(ItemInformation(DefaultLocation, DefaultShipping, imgs),
                                       pay, DefaultMessaging, objs),
      store |-> st, categoryOk |-> TRUE] :
        imgs \in {s \in ItemImageLists : Len(s) <= 1 /\ \A i \in 1..Len(s) : s[i].hash = "h1"},
        pay \in PaymentInformations,
        objs \in SeqsUpTo({DefaultObject(t) : t \in ObjectTypes}, MaxObjects),
        st \in {FullStore, {}}}
InformationScenarios ==
    {[template |-> ListingItemTemplate(ItemInformation(loc, DefaultShipping, DefaultImages),
                                       DefaultPayment, msgs, DefaultObjects),
      store |-> FullStore, categoryOk |-> TRUE] :
        loc \in ItemLocations, msgs \in MessagingInformationLists}
    \cup
    {[template |-> ListingItemTemplate(ItemInformation(DefaultLocation, ships, DefaultImages),
                                       DefaultPayment, DefaultMessaging, DefaultObjects),
      store |-> FullStore, categoryOk |-> TRUE] :
        ships \in ShippingDestinationLists}
ComposeScenarios == ImageScenarios \cup PaymentScenarios \cup InformationScenarios

\* the wire messages ListingItemFactory.getModel reads: its own property names
WireDsn(id) == [protocol |-> "LOCAL", encoding |-> "BASE64", data |-> <<"h1", ORIGINAL>>, id |-> id]
WireDataLists ==
    {[i \in 1..k |-> WireDsn(IF i % 2 = 1 THEN "d1" ELSE "d2")] : k \in 0..MaxImageDatas}
WireImages == [hash : ImageHashes, data : WireDataLists, featured : {"false"}]
WireImageLists == SeqsUpTo(WireImages, MaxImages)
DefaultWireImages == <<[hash |-> "h1", data |-> <<WireDsn("d1")>>, featured |-> "false"]>>

WireInformation(images) ==
    [title |-> "Bike", short_description |-> "A bike", long_description |-> "A red bike",
     category |-> "cat_bikes",
     location |-> [country |-> "FI", address |-> "Main street 1",
                   gps |-> [lat |-> "60.1", lng |-> "24.9", marker_title |-> "Helsinki"]],
     shipping_destinations |-> <<<<"U", "S">>, <<"-", "C", "N">>>>,
     images |-> images]

WireAddresses == {<<>>, [address |-> <<>>], [address |-> [type |-> "STEALTH", address |-> "addr1"]]}
WirePayments ==
    {[type |-> SALE,
      escrow |-> [type |-> "MAD", ratio |-> [buyer |-> "100", seller |-> "100"]],
      cryptocurrency |-> <<[currency |-> "PART", base_price |-> "10",
                            shipping_price |-> [domestic |-> "1", international |-> "2"]]
                           @@ a>>] : a \in WireAddresses}
DefaultWirePayment ==
    CHOOSE pay \in WirePayments : Has(pay.cryptocurrency[1], "address")
                                    /\ pay.cryptocurrency[1].address # <<>>

WireMessagingOptions ==
    {[protocol |-> "SMSG", public_key |-> "pk1"],
     [protocol |-> "BOGUS", public_key |-> "pk2"],
     [public_key |-> "pk3"]}
WireMessagingLists == SeqsUpTo(WireMessagingOptions, MaxMessaging)

WireObjects ==
    {[type |-> "TABLE", title |-> "choose",
      table |-> <<[key |-> "colour", value |-> "red"], [key |-> "size", value |-> "XL"]>>],
     [type |-> "DROPDOWN", title |-> "choose",
      options |-> <<[name |-> "colour", value |-> "red"], [name |-> "size", value |-> "XL"]>>],
     [type |-> "CHECKBOX", title |-> "choose",
      options |-> <<[name |-> "colour", value |-> "red"]>>]}
WireObjectLists == SeqsUpTo(WireObjects, MaxObjects)

ListingItemMessage(information, payment, messaging, objects) ==
    [hash |-> "templatehash", information |-> information, payment |-> payment,
     messaging |-> messaging, objects |-> objects]

WireMessages ==
    {ListingItemMessage(WireInformation(imgs), pay,
                        <<[protocol |-> "SMSG", public_key |-> "pk1"]>>, <<>>) :
        imgs \in WireImageLists, pay \in WirePayments}
    \cup
    {ListingItemMessage(WireInformation(DefaultWireImages), DefaultWirePayment, msgs, objs) :
        msgs \in WireMessagingLists, objs \in WireObjectLists}

\* the delivery metadata of a received message
SmsgMessages ==
    {[from |-> "alice", daysretention |-> "4", sent |-> "1000", expiration |-> "5000",
      received |-> "1100"],
     [from |-> "bob", daysretention |-> "7", sent |-> "2000", expiration |-> "9000",
      received |-> "2200"]}
MarketIds == {"1", "2"}

GetModelArguments(listingItemMessage, smsgMessage, marketId) ==
    [listingItemMessage |-> listingItemMessage, smsgMessage |-> smsgMessage,
     marketId |-> marketId, rootCategory |-> "cat_ROOT"]

NotRun == <<>>

----------------------------------------------------------------------------
(* The calls *)

InitCommon ==
    /\ composed = NotRun
    /\ calls = <<>>
    /\ request = NotRun
    /\ unitOut = NotRun

\* ListingItemMessageFactory.get is about to be called
InitCompose ==
    /\ pc = "template"
    /\ \E sc \in ComposeScenarios :
          /\ template = sc.template
          /\ store = sc.store
          /\ categoryOk = sc.categoryOk
    /\ received = NotRun
    /\ unitIn = NotRun

\* ListingItemFactory.getModel is about to be called on a message of the network
InitReceive ==
    /\ pc = "received"
    /\ template = NotRun
    /\ store = {}
    /\ categoryOk \in BOOLEAN
    /\ \E m \in WireMessages, smsg \in SmsgMessages, id \in MarketIds :
          received = GetModelArguments(m, smsg, id)
    /\ unitIn = NotRun

\* a sub-transformer is about to be applied on its own
InitUnit ==
    /\ template = NotRun
    /\ categoryOk = TRUE
    /\ received = NotRun
    /\ \/ pc = "shipping" /\ unitIn \in ShippingDestinationLists /\ store = {}
       \/ pc = "object" /\ unitIn \in ListingItemObjects /\ store = {}
       \/ pc = "location" /\ unitIn \in ItemLocations /\ store = {}
       \/ /\ pc = "imageData"
          /\ unitIn \in ItemImageDataLists("h1")
          /\ store \in SUBSET ({"h1"} \X {RESIZED, ORIGINAL})

Init ==
    /\ InitCommon
    /\ InitCompose \/ InitReceive \/ InitUnit
    /\ tasks = NotRun
    /\ contentReferences = NotRun

Compose ==
    /\ pc = "template"
    /\ composed' = get([template |-> template], store, categoryOk).res
    /\ calls' = get([template |-> template], store, categoryOk).calls
    /\ pc' = "composed"
    /\ UNCHANGED <<template, store, categoryOk, received, request, unitIn, unitOut,
                 tasks, contentReferences>>

\* the composed message reaches a peer, which hands the message, or its item,
\* to getModel
Deliver ==
    /\ pc = "composed"
    /\ composed.ok
    /\ \E whole \in BOOLEAN, smsg \in SmsgMessages, id \in MarketIds :
          received' = GetModelArguments(IF whole THEN composed.val ELSE composed.val.item,
                                        smsg, id)
    /\ pc' = "received"
    /\ UNCHANGED <<template, store, categoryOk, composed, calls, request, unitIn, unitOut,
                 tasks, contentReferences>>

Decompose ==
    /\ pc = "received"
    /\ request' = getModel(received.listingItemMessage, received.smsgMessage,
                           received.marketId, received.rootCategory, categoryOk)
    /\ pc' = "decomposed"
    /\ UNCHANGED <<template, store, categoryOk, composed, calls, received, unitIn, unitOut,
                 tasks, contentReferences>>

ShippingEncode ==
    /\ pc = "shipping"
    /\ unitOut' = [wire |-> getMessageItemInfoShippingDestinations(unitIn)]
    /\ pc' = "shipping.wire"
    /\ UNCHANGED <<template, store, categoryOk, composed, calls, received, request, unitIn,
                 tasks, contentReferences>>

ShippingDecode ==
    /\ pc = "shipping.wire"
    /\ unitOut' = [wire |-> unitOut.wire, model |-> getModelShippingDestinations(unitOut.wire)]
    /\ pc' = "shipping.model"
    /\ UNCHANGED <<template, store, categoryOk, composed, calls, received, request, unitIn,
                 tasks, contentReferences>>

ObjectEncode ==
    /\ pc = "object"
    /\ unitOut' = [wire |-> getItemObject(unitIn)]
    /\ pc' = "object.wire"
    /\ UNCHANGED <<template, store, categoryOk, composed, calls, received, request, unitIn,
                 tasks, contentReferences>>

ObjectDecode ==
    /\ pc = "object.wire"
    /\ unitOut.wire.ok
    /\ unitOut' = [wire |-> unitOut.wire,
                   model |-> getModelListingItemObjects(<<unitOut.wire.val>>)]
    /\ pc' = "object.model"
    /\ UNCHANGED <<template, store, categoryOk, composed, calls, received, request, unitIn,
                 tasks, contentReferences>>

LocationEncode ==
    /\ pc = "location"
    /\ unitOut' = [wire |-> getMessageItemInfoLocation(unitIn)]
    /\ pc' = "location.wire"
    /\ UNCHANGED <<template, store, categoryOk, composed, calls, received, request, unitIn,
                 tasks, contentReferences>>

LocationDecode ==
    /\ pc = "location.wire"
    /\ unitOut' = [wire |-> unitOut.wire, model |-> getModelLocation(unitOut.wire)]
    /\ pc' = "location.model"
    /\ UNCHANGED <<template, store, categoryOk, composed, calls, received, request, unitIn,
                 tasks, contentReferences>>

ImageDataSelect ==
    /\ pc = "imageData"
    /\ unitOut' = getMessageItemInfoImageData(unitIn, store).res
    /\ calls' = getMessageItemInfoImageData(unitIn, store).calls
    /\ pc' = "imageData.done"
    /\ UNCHANGED <<template, store, categoryOk, composed, received, request, unitIn,
                 tasks, contentReferences>>

Next ==
    \/ Compose
    \/ Deliver
    \/ Decompose
    \/ ShippingEncode
    \/ ShippingDecode
    \/ ObjectEncode
    \/ ObjectDecode
    \/ LocationEncode
    \/ LocationDecode
    \/ ImageDataSelect

Spec == Init /\ [][Next]_vars

----------------------------------------------------------------------------
(* Calls of get and getModel in progress at once.  Each await of a call is a *)
(* step, and the steps of the calls are taken in any order.                  *)

Compositions == {"a", "b"}

\* one array for the factory, filled by every call
ArrayOfFactory(t) == "a"

\* the array contentReferences of the call t: getMessageInformationImages makes a
\* new one each time it is called
ArrayOf(t) == t

\* a call about to start, with its argument
Task(kind, input) ==
    [kind |-> kind, input |-> input, at |-> "start", i |-> 1, calls |-> <<>>,
     parts |-> <<>>, result |-> NotRun]

\* the call has returned, or thrown
Returned(task, result) == [task EXCEPT !.at = "done", !.result = result]

\* the image the loop of getMessageInformationImages is at
CurrentImage(task) == task.input.ItemInformation.ItemImages[task.i]

AfterCategory(task, category, itemLocation) ==
    IF ~category.ok THEN Returned(task, category)
    ELSE IF itemLocation = UndefinedObject
      THEN Returned(task, Err(TypeError("getMessageItemInfoLocation")))
    ELSE [task EXCEPT !.at = "images", !.parts = [category |-> category]]

AfterSelect(task, itemImageDatas, selected) ==
    IF selected = 0 THEN Returned(task, Err(ImagePayloadMissing))
    ELSE [task EXCEPT !.at = "loading",
                      !.calls = Append(@, [imageHash |-> itemImageDatas[selected].imageHash,
                                           imageVersion |->
                                               itemImageDatas[selected].imageVersion])]

AfterLoad(task, imageData) ==
    IF ~imageData.ok THEN Returned(task, imageData)
    ELSE [task EXCEPT !.at = "images", !.i = @ + 1]

\* contentReferences.push of the ContentReference of image
Pushed(array, image, imageData) ==
    IF ~imageData.ok THEN array
    ELSE Append(array, [hash |-> Get(image, "hash"),
                        data |-> imageData.val,
                        featured |-> Get(image, "featured")])

AfterInformation(task, information) ==
    [task EXCEPT !.at = "payment", !.parts = [information |-> information]]

AfterPayment(task, payment) ==
    IF ~payment.ok THEN Returned(task, payment)
    ELSE [task EXCEPT !.at = "objects", !.parts = ("payment" :> payment) @@ @]

\* the create request getModel returns
CreateRequestOf(listingItemMessage, smsgMessage, marketId, parts, listingItemObjects) ==
    [hash |-> Get(listingItemMessage, "hash"),
     seller |-> Get(smsgMessage, "from"),
     market_id |-> marketId,
     expiryTime |-> Get(smsgMessage, "daysretention"),
     postedAt |-> Get(smsgMessage, "sent"),
     expiredAt |-> Get(smsgMessage, "expiration"),
     receivedAt |-> Get(smsgMessage, "received"),
     itemInformation |-> parts.itemInformation,
     paymentInformation |-> parts.paymentInformation,
     messagingInformation |-> parts.messagingInformation,
     listingItemObjects |-> listingItemObjects]

\* an awaited part of the create request has been built, or has thrown
AfterPart(task, name, part, next) ==
    IF ~part.ok THEN Returned(task, part)
    ELSE [task EXCEPT !.at = next, !.parts = (name :> part.val) @@ @]

AfterModelObjects(task, listingItemObjects) ==
    IF ~listingItemObjects.ok THEN Returned(task, listingItemObjects)
    ELSE Returned(task, Ok(CreateRequestOf(task.input.listingItemMessage,
                                           task.input.smsgMessage, task.input.marketId,
                                           task.parts, listingItemObjects.val)))

\* the arguments of the calls in progress at once: templates whose images have both
\* versions or the ORIGINAL alone, a template whose image has a THUMBNAIL alone, a
\* template that is not for sale, and received messages
ConcurrentImages ==
    {[hash |-> "h1", featured |-> "false",
      ItemImageDatas |-> <<ItemImageData("h1", ORIGINAL, "d1"),
                           ItemImageData("h1", RESIZED, "d2")>>],
     [hash |-> "h2", featured |-> "false",
      ItemImageDatas |-> <<ItemImageData("h2", ORIGINAL, "d1")>>]}
ConcurrentTemplates ==
    {ListingItemTemplate(ItemInformation(DefaultLocation, DefaultShipping, imgs),
                         DefaultPayment, DefaultMessaging, DefaultObjects) :
        imgs \in SeqsUpTo(ConcurrentImages, MaxImages)
                   \cup {<<[hash |-> "h1", featured |-> "false",
                            ItemImageDatas |-> <<ItemImageData("h1", "THUMBNAIL", "d1")>>]>>}}
    \cup
    {ListingItemTemplate(ItemInformation(DefaultLocation, DefaultShipping, DefaultImages),
                         [DefaultPayment EXCEPT !.type = "AUCTION"],
                         DefaultMessaging, DefaultObjects)}
ConcurrentMessages ==
    {ListingItemMessage(WireInformation(DefaultWireImages), DefaultWirePayment,
                        <<[protocol |-> "SMSG", public_key |-> "pk1"]>>, objs) :
        objs \in {<<>>, <<[type |-> "TABLE", title |-> "choose",
                           table |-> <<[key |-> "colour", value |-> "red"]>>]>>}}
    \cup
    {[type |-> MPA_LISTING_ADD, hash |-> "templatehash"]}
ConcurrentStores == {FullStore, FullStore \ {<<"h2", ORIGINAL>>}}
ConcurrentTasks ==
    {Task("get", t) : t \in ConcurrentTemplates}
    \cup
    {Task("getModel", GetModelArguments(m, smsg, "1")) :
        m \in ConcurrentMessages, smsg \in SmsgMessages}

\* get and getModel are about to be called, one call for each composition
InitConcurrent ==
    /\ InitCommon
    /\ pc = "concurrent"
    /\ template = NotRun
    /\ received = NotRun
    /\ unitIn = NotRun
    /\ store \in ConcurrentStores
    /\ categoryOk \in BOOLEAN
    /\ tasks \in [Compositions -> ConcurrentTasks]
    /\ contentReferences = [t \in Compositions |-> <<>>]

\* getMessageItemInfo up to the loop over the images
GetCategory(t) ==
    /\ tasks[t].kind = "get"
    /\ tasks[t].at = "start"
    /\ tasks' = [tasks EXCEPT ![t] =
                    AfterCategory(@, getArray(Get(@.input.ItemInformation, "ItemCategory"),
                                              categoryOk),
                                  GetObject(@.input.ItemInformation, "ItemLocation"))]
    /\ contentReferences' = [contentReferences EXCEPT ![ArrayOf(t)] = <<>>]
    /\ UNCHANGED <<pc, template, store, categoryOk, composed, calls, received, request,
                   unitIn, unitOut>>

\* getMessageItemInfoImageData up to the call of loadImageFile
SelectImage(t) ==
    /\ tasks[t].kind = "get"
    /\ tasks[t].at = "images"
    /\ tasks[t].i <= Len(tasks[t].input.ItemInformation.ItemImages)
    /\ tasks' = [tasks EXCEPT ![t] =
                    AfterSelect(@, CurrentImage(@).ItemImageDatas,
                                SelectedImageData(CurrentImage(@).ItemImageDatas))]
    /\ UNCHANGED <<pc, template, store, categoryOk, composed, calls, received, request,
                   unitIn, unitOut, contentReferences>>

\* loadImageFile returns, and the ContentReference is pushed
LoadImage(t) ==
    /\ tasks[t].kind = "get"
    /\ tasks[t].at = "loading"
    /\ tasks' = [tasks EXCEPT ![t] =
                    AfterLoad(@, getMessageItemInfoImageData(CurrentImage(@).ItemImageDatas,
                                                             store).res)]
    /\ contentReferences' =
          [contentReferences EXCEPT ![ArrayOf(t)] =
              Pushed(@, CurrentImage(tasks[t]),
                     getMessageItemInfoImageData(CurrentImage(tasks[t]).ItemImageDatas,
                                                 store).res)]
    /\ UNCHANGED <<pc, template, store, categoryOk, composed, calls, received, request,
                   unitIn, unitOut>>

\* the loop over the images has ended: getMessageItemInfo returns
FinishInformation(t) ==
    /\ tasks[t].kind = "get"
    /\ tasks[t].at = "images"
    /\ tasks[t].i > Len(tasks[t].input.ItemInformation.ItemImages)
    /\ tasks' = [tasks EXCEPT ![t] =
                    AfterInformation(@, ItemInfoOf(@.input.ItemInformation,
                                                   @.parts.category,
                                                   @.input.ItemInformation.ItemLocation,
                                                   [res |-> Ok(contentReferences[ArrayOf(t)]),
                                                    calls |-> @.calls]))]
    /\ UNCHANGED <<pc, template, store, categoryOk, composed, calls, received, request,
                   unitIn, unitOut, contentReferences>>

GetPayment(t) ==
    /\ tasks[t].kind = "get"
    /\ tasks[t].at = "payment"
    /\ tasks' = [tasks EXCEPT ![t] =
                    AfterPayment(@, getMessagePayment(@.input.PaymentInformation))]
    /\ UNCHANGED <<pc, template, store, categoryOk, composed, calls, received, request,
                   unitIn, unitOut, contentReferences>>

\* getMessageMessaging, getMessageObjects and the return of get
GetObjects(t) ==
    /\ tasks[t].kind = "get"
    /\ tasks[t].at = "objects"
    /\ tasks' = [tasks EXCEPT ![t] =
                    Returned(@, MpaOf([template |-> @.input], @.parts.information,
                                      @.parts.payment,
                                      getMessageMessaging(@.input.MessagingInformation),
                                      getMessageObjects(@.input.ListingItemObjects)).res)]
    /\ UNCHANGED <<pc, template, store, categoryOk, composed, calls, received, request,
                   unitIn, unitOut, contentReferences>>

GetModelInformation(t) ==
    /\ tasks[t].kind = "getModel"
    /\ tasks[t].at = "start"
    /\ tasks' = [tasks EXCEPT ![t] =
                    AfterPart(@, "itemInformation",
                              getModelItemInformation(
                                  GetObject(@.input.listingItemMessage, "information"),
                                  @.input.rootCategory, categoryOk),
                              "payment")]
    /\ UNCHANGED <<pc, template, store, categoryOk, composed, calls, received, request,
                   unitIn, unitOut, contentReferences>>

GetModelPayment(t) ==
    /\ tasks[t].kind = "getModel"
    /\ tasks[t].at = "payment"
    /\ tasks' = [tasks EXCEPT ![t] =
                    AfterPart(@, "paymentInformation",
                              getModelPaymentInformation(
                                  GetObject(@.input.listingItemMessage, "payment")),
                              "messaging")]
    /\ UNCHANGED <<pc, template, store, categoryOk, composed, calls, received, request,
                   unitIn, unitOut, contentReferences>>

GetModelMessaging(t) ==
    /\ tasks[t].kind = "getModel"
    /\ tasks[t].at = "messaging"
    /\ tasks' = [tasks EXCEPT ![t] =
                    AfterPart(@, "messagingInformation",
                              getModelMessagingInformation(
                                  GetObject(@.input.listingItemMessage, "messaging")),
                              "objects")]
    /\ UNCHANGED <<pc, template, store, categoryOk, composed, calls, received, request,
                   unitIn, unitOut, contentReferences>>

\* getModelListingItemObjects and the return of getModel
GetModelObjects(t) ==
    /\ tasks[t].kind = "getModel"
    /\ tasks[t].at = "objects"
    /\ tasks' = [tasks EXCEPT ![t] =
                    AfterModelObjects(@, getModelListingItemObjects(
                                             GetObject(@.input.listingItemMessage, "objects")))]
    /\ UNCHANGED <<pc, template, store, categoryOk, composed, calls, received, request,
                   unitIn, unitOut, contentReferences>>

NextConcurrent ==
    \E t \in Compositions :
        \/ GetCategory(t)
        \/ SelectImage(t)
        \/ LoadImage(t)
        \/ FinishInformation(t)
        \/ GetPayment(t)
        \/ GetObjects(t)
        \/ GetModelInformation(t)
        \/ GetModelPayment(t)
        \/ GetModelMessaging(t)
        \/ GetModelObjects(t)

SpecConcurrent == InitConcurrent /\ [][NextConcurrent]_vars

----------------------------------------------------------------------------
(* The claims *)

HasRun(r) == DOMAIN r # {}

\* a destination the wire format can carry: shipped or not shipped, to a country
\* whose string does not start with the sign
Representable(destination) ==
    /\ destination.shippingAvailability \in {SHIPS, DOES_NOT_SHIP}
    /\ CharAt0(destination.country) # "-"

\* C1 as stated: decoding the encoded list yields the same list, whatever the country
\* strings and the availability values are, and the wire string of a SHIPS entry
\* never starts with "-".
C1_AnyListRoundTrips ==
    pc = "shipping.model" =>
        /\ unitOut.model.ok
        /\ unitOut.model.val = unitIn
        /\ Len(unitOut.wire) = Len(unitIn)
        /\ \A i \in 1..Len(unitIn) :
              unitIn[i].shippingAvailability = SHIPS => CharAt0(unitOut.wire[i]) # "-"

\* C1 amended: a list whose entries are all SHIPS or DOES_NOT_SHIP, to countries whose
\* string does not start with "-", is decoded from its encoding unchanged (length,
\* order, country and availability), and the wire string of each of its SHIPS entries
\* does not start with "-".
C1_RepresentableListRoundTrips ==
    (pc = "shipping.model" /\ \A i \in 1..Len(unitIn) : Representable(unitIn[i])) =>
        /\ unitOut.model.ok
        /\ unitOut.model.val = unitIn
        /\ Len(unitOut.wire) = Len(unitIn)
        /\ \A i \in 1..Len(unitIn) :
              unitIn[i].shippingAvailability = SHIPS => CharAt0(unitOut.wire[i]) # "-"

C1_Witness ==
    /\ pc = "shipping.model"
    /\ Len(unitIn) = 2
    /\ \A i \in 1..Len(unitIn) : Representable(unitIn[i])
    /\ unitIn[1].shippingAvailability = SHIPS
    /\ unitIn[2].shippingAvailability = DOES_NOT_SHIP
    /\ unitIn[2].country # <<>>
    /\ unitOut.model.val = unitIn

\* C2 as stated: the option rows of a DROPDOWN object go on the wire as name/value
\* rows, and decoding the encoded object gives back the object's key/value rows.
C2_DropdownRowsRoundTrip ==
    (pc = "object.model" /\ unitIn.type = "DROPDOWN") =>
        /\ \A i \in 1..Len(unitOut.wire.val.options) :
              DOMAIN unitOut.wire.val.options[i] = {"name", "value"}
        /\ unitOut.model.ok
        /\ unitOut.model.val[1].listingItemObjectDatas = unitIn.ListingItemObjectDatas

\* C3 as stated: when a template composes, decomposing the composed message gives a
\* create request whose title, descriptions, shipping destinations, escrow, price,
\* messaging pairs and object types and descriptions are the template's.
C3_ComposedMessageDecomposes ==
    (pc = "decomposed" /\ HasRun(composed)) =>
        /\ request.ok
        /\ LET information == request.val.itemInformation
               payment == request.val.paymentInformation
               itemInformation == template.ItemInformation
               paymentInformation == template.PaymentInformation
           IN  /\ information.title = itemInformation.title
               /\ information.shortDescription = itemInformation.shortDescription
               /\ information.longDescription = itemInformation.longDescription
               /\ information.shippingDestinations = itemInformation.ShippingDestinations
               /\ payment.escrow.type = paymentInformation.Escrow.type
               /\ payment.escrow.ratio = paymentInformation.Escrow.Ratio
               /\ payment.itemPrice.currency = paymentInformation.ItemPrice.currency
               /\ payment.itemPrice.basePrice = paymentInformation.ItemPrice.basePrice
               /\ payment.itemPrice.shippingPrice = paymentInformation.ItemPrice.ShippingPrice
               /\ request.val.messagingInformation = template.MessagingInformation
               /\ Len(request.val.listingItemObjects) = Len(template.ListingItemObjects)
               /\ \A i \in 1..Len(template.ListingItemObjects) :
                     /\ request.val.listingItemObjects[i].type
                            = template.ListingItemObjects[i].type
                     /\ request.val.listingItemObjects[i].description
                            = template.ListingItemObjects[i].description

HasVersion(itemImageDatas, version) ==
    \E i \in 1..Len(itemImageDatas) : itemImageDatas[i].imageVersion = version

\* the first variant of itemImageDatas with the given version
FirstWithVersion(itemImageDatas, version) ==
    itemImageDatas[CHOOSE i \in 1..Len(itemImageDatas) :
                      /\ itemImageDatas[i].imageVersion = version
                      /\ \A j \in 1..(i - 1) : itemImageDatas[j].imageVersion # version]

\* the variant C4 says is selected
ExpectedVariant(itemImageDatas) ==
    IF HasVersion(itemImageDatas, RESIZED) THEN FirstWithVersion(itemImageDatas, RESIZED)
    ELSE FirstWithVersion(itemImageDatas, ORIGINAL)

Selectable(itemImageDatas) ==
    HasVersion(itemImageDatas, RESIZED) \/ HasVersion(itemImageDatas, ORIGINAL)

\* C4 as stated: with a RESIZED variant stored that variant is selected, with none but
\* an ORIGINAL one the ORIGINAL is; in both cases the image composes and loadImageFile
\* is asked for exactly the selected variant's version.
C4_SelectedVariantComposes ==
    (pc = "imageData.done" /\ Selectable(unitIn)) =>
        /\ calls = <<[imageHash |-> ExpectedVariant(unitIn).imageHash,
                      imageVersion |-> ExpectedVariant(unitIn).imageVersion]>>
        /\ unitOut.ok
        /\ Len(unitOut.val) = 1
        /\ unitOut.val[1].id = ExpectedVariant(unitIn).dataId

\* C4 amended: the selection is as stated and loadImageFile is asked exactly once, for
\* the selected variant's version; the image composes, from the selected variant, when
\* loadImageFile returns the file, and fails with loadImageFile's failure otherwise.
C4_SelectedVariantIsLoaded ==
    (pc = "imageData.done" /\ Selectable(unitIn)) =>
        /\ calls = <<[imageHash |-> ExpectedVariant(unitIn).imageHash,
                      imageVersion |-> ExpectedVariant(unitIn).imageVersion]>>
        /\ IF <<calls[1].imageHash, calls[1].imageVersion>> \in store
           THEN /\ unitOut.ok
                /\ Len(unitOut.val) = 1
                /\ unitOut.val[1].id = ExpectedVariant(unitIn).dataId
                /\ unitOut.val[1].data = <<calls[1].imageHash, calls[1].imageVersion>>
           ELSE ~unitOut.ok /\ unitOut.err = PayloadResolutionFailed

\* an ORIGINAL stored before a RESIZED one, and the RESIZED one selected and loaded
C4_Witness ==
    /\ pc = "imageData.done"
    /\ Len(unitIn) = 2
    /\ unitIn[1].imageVersion = ORIGINAL
    /\ unitIn[2].imageVersion = RESIZED
    /\ unitOut.ok
    /\ unitOut.val[1].id = unitIn[2].dataId
    /\ calls[1].imageVersion = RESIZED

TemplateImages == template.ItemInformation.ItemImages

Unselectable(image) == ~Selectable(image.ItemImageDatas)

\* the first image of the template with neither a RESIZED nor an ORIGINAL variant
FirstUnselectable ==
    CHOOSE i \in 1..Len(TemplateImages) :
        /\ Unselectable(TemplateImages[i])
        /\ \A j \in 1..(i - 1) : ~Unselectable(TemplateImages[j])

\* the file loadImageFile is asked for image i is in the store
Loadable(i) ==
    <<ExpectedVariant(TemplateImages[i].ItemImageDatas).imageHash,
      ExpectedVariant(TemplateImages[i].ItemImageDatas).imageVersion>> \in store

\* C5 as stated, for the templates whose category resolves: a template with an image
\* that has neither a RESIZED nor an ORIGINAL variant fails to compose with
\* ImagePayloadMissing and gives no message, wherever the image is in the list and
\* whatever the rest of the template is.
C5_MissingVariantIsTheFailure ==
    (/\ pc = "composed"
     /\ categoryOk
     /\ \E i \in 1..Len(TemplateImages) : Unselectable(TemplateImages[i])) =>
        ~composed.ok /\ composed.err = ImagePayloadMissing

\* C5 amended: such a template never composes and gives no message, wherever the image
\* is and whatever the rest of the template is; the failure is ImagePayloadMissing
\* unless an earlier step has failed first: the category resolution (its failure is
\* reported) or the loading of the file of an image before the first such image
\* (loadImageFile's failure is reported).
C5_MissingVariantFailsComposition ==
    (pc = "composed" /\ \E i \in 1..Len(TemplateImages) : Unselectable(TemplateImages[i])) =>
        /\ ~composed.ok
        /\ composed.err =
              IF ~categoryOk THEN CategoryResolutionFailed
              ELSE IF \E j \in 1..(FirstUnselectable - 1) : ~Loadable(j)
                THEN PayloadResolutionFailed
              ELSE ImagePayloadMissing

\* the second of two images has no usable variant, the first was loaded
C5_Witness ==
    /\ pc = "composed"
    /\ Len(TemplateImages) = 2
    /\ ~Unselectable(TemplateImages[1])
    /\ Unselectable(TemplateImages[2])
    /\ Len(calls) = 1
    /\ ~composed.ok
    /\ composed.err = ImagePayloadMissing

\* C6 as stated, for the templates whose item information composes: with a sale type
\* other than SALE the composition fails with UnsupportedSaleType, whether or not the
\* escrow and price sub-records are there.
C6_OtherSaleTypeIsUnsupported ==
    (/\ pc = "composed"
     /\ template.PaymentInformation.type # SALE
     /\ getMessageItemInfo(template.ItemInformation, store, categoryOk).res.ok) =>
        ~composed.ok /\ composed.err = UnsupportedSaleType

ReceivedMessage == received.listingItemMessage

\* the received message was read from the network, not handed over by Deliver
FromNetwork == ~HasRun(composed)

SupportedObjectTypes == {"TABLE", "DROPDOWN"}

\* C7 as stated: a received message with an object whose type is neither TABLE nor
\* DROPDOWN gives no create request.
C7_UnsupportedObjectTypeIsRejected ==
    (/\ pc = "decomposed"
     /\ FromNetwork
     /\ \E i \in 1..Len(ReceivedMessage.objects) :
           ReceivedMessage.objects[i].type \notin SupportedObjectTypes) =>
        ~request.ok

\* C8 as stated: a received message with a messaging entry whose protocol is not a
\* member of MessagingProtocolType gives no create request.
C8_UnknownProtocolIsRejected ==
    (/\ pc = "decomposed"
     /\ FromNetwork
     /\ \E i \in 1..Len(ReceivedMessage.messaging) :
           Get(ReceivedMessage.messaging[i], "protocol") \notin MessagingProtocolTypes) =>
        ~request.ok

ReceivedImages == ReceivedMessage.information.images
RequestImages == request.val.itemInformation.itemImages

\* C9 as stated: each content reference of the received message becomes one image,
\* in order and with its hash, that has exactly one data record, tagged ORIGINAL,
\* whatever the number of entries of the reference's data list.
C9_OneDataRecordPerImage ==
    (pc = "decomposed" /\ FromNetwork /\ request.ok) =>
        /\ Len(RequestImages) = Len(ReceivedImages)
        /\ \A i \in 1..Len(ReceivedImages) :
              /\ RequestImages[i].hash = ReceivedImages[i].hash
              /\ Len(RequestImages[i].datas) = 1
              /\ RequestImages[i].datas[1].imageVersion = ORIGINAL

\* C9 amended: each content reference becomes one image, in order and with its hash,
\* that has one data record per entry of the reference's data list, in the list's
\* order, each tagged ORIGINAL and carrying the entry's id, protocol, encoding and
\* data: exactly one record when the list has exactly one entry, none when it is empty.
C9_OneDataRecordPerPayload ==
    (pc = "decomposed" /\ FromNetwork /\ request.ok) =>
        /\ Len(RequestImages) = Len(ReceivedImages)
        /\ \A i \in 1..Len(ReceivedImages) :
              /\ RequestImages[i].hash = ReceivedImages[i].hash
              /\ Len(RequestImages[i].datas) = Len(ReceivedImages[i].data)
              /\ \A k \in 1..Len(ReceivedImages[i].data) :
                    /\ RequestImages[i].datas[k].imageVersion = ORIGINAL
                    /\ RequestImages[i].datas[k].dataId = ReceivedImages[i].data[k].id
                    /\ RequestImages[i].datas[k].protocol = ReceivedImages[i].data[k].protocol
                    /\ RequestImages[i].datas[k].encoding = ReceivedImages[i].data[k].encoding
                    /\ RequestImages[i].datas[k].data = ReceivedImages[i].data[k].data

\* two content references, with two payload entries and with none
C9_Witness ==
    /\ pc = "decomposed"
    /\ FromNetwork
    /\ request.ok
    /\ Len(ReceivedImages) = 2
    /\ ReceivedImages[1].hash # ReceivedImages[2].hash
    /\ Len(ReceivedImages[1].data) = 2
    /\ Len(ReceivedImages[2].data) = 0
    /\ Len(RequestImages[1].datas) = 2
    /\ RequestImages[1].datas[1].dataId # RequestImages[1].datas[2].dataId

\* C10: the wire location has a gps exactly when the location has a marker, and the gps
\* then carries the marker's lng and lat; it has a country (the region) and an address
\* only when the location has them, and the gps has marker_title and marker_text only
\* when the marker has them; each emitted field carries the location's value.
C10_LocationOmitsAbsentFields ==
    pc \in {"location.wire", "location.model"} =>
        LET wire == unitOut.wire IN
        /\ Has(wire, "gps") <=> Has(unitIn, "LocationMarker")
        /\ Has(wire, "gps") =>
              /\ {"lng", "lat"} \subseteq DOMAIN wire.gps
              /\ wire.gps.lng = unitIn.LocationMarker.lng
              /\ wire.gps.lat = unitIn.LocationMarker.lat
              /\ Has(wire.gps, "marker_title") =>
                    /\ Has(unitIn.LocationMarker, "markerTitle")
                    /\ wire.gps.marker_title = unitIn.LocationMarker.markerTitle
              /\ Has(wire.gps, "marker_text") =>
                    /\ Has(unitIn.LocationMarker, "markerText")
                    /\ wire.gps.marker_text = unitIn.LocationMarker.markerText
        /\ Has(wire, "country") => Has(unitIn, "region") /\ wire.country = unitIn.region
        /\ Has(wire, "address") => Has(unitIn, "address") /\ wire.address = unitIn.address
        /\ DOMAIN wire \subseteq {"country", "address", "gps"}

\* a location with a region and no marker: the wire location has a country and no gps
C10_Witness ==
    /\ pc = "location.wire"
    /\ Has(unitIn, "region")
    /\ ~Has(unitIn, "LocationMarker")
    /\ Has(unitOut.wire, "country")
    /\ ~Has(unitOut.wire, "gps")


\* the price record of the template and the pricing option composed from it
TemplateItemPrice == template.PaymentInformation.ItemPrice
ComposedOption == composed.val.item.payment.options[1]

\* the pricing entry of the received message and the price record built from it
ReceivedOption == received.listingItemMessage.payment.cryptocurrency[1]
RequestItemPrice == request.val.paymentInformation.itemPrice

\* C11 as stated: the pricing option composed from a price record has an address
\* field exactly when the price record has a non-empty crypto address, and the field
\* is left out, not set to undefined, when it has none; and the price record built
\* from a received pricing entry has a crypto address sub-record exactly when the
\* entry has a non-empty address.
C11_AddressFieldIffCryptoAddress ==
    /\ (pc = "composed" /\ composed.ok) =>
          /\ Has(ComposedOption, "address")
                <=> ~IsEmpty(GetObject(TemplateItemPrice, "CryptocurrencyAddress"))
          /\ Has(ComposedOption, "address") => ComposedOption.address # UndefinedObject
    /\ (pc = "decomposed" /\ FromNetwork /\ request.ok) =>
          (GetObject(RequestItemPrice, "cryptocurrencyAddress") # UndefinedObject
              <=> ~IsEmpty(GetObject(ReceivedOption, "address")))


\* C12: for every TABLE object, the rows go on the wire as key/value rows, and
\* decoding the encoded object gives back the object's rows: as many, in the same
\* order, with the same key and the same value in each.
C12_TableRowsRoundTrip ==
    (pc = "object.model" /\ unitIn.type = "TABLE") =>
        /\ unitOut.wire.ok
        /\ Len(unitOut.wire.val.table) = Len(unitIn.ListingItemObjectDatas)
        /\ \A i \in 1..Len(unitOut.wire.val.table) :
              DOMAIN unitOut.wire.val.table[i] = {"key", "value"}
        /\ unitOut.model.ok
        /\ unitOut.model.val[1].type = "TABLE"
        /\ Len(unitOut.model.val[1].listingItemObjectDatas) = Len(unitIn.ListingItemObjectDatas)
        /\ \A i \in 1..Len(unitIn.ListingItemObjectDatas) :
              LET row == unitOut.model.val[1].listingItemObjectDatas[i]
              IN  /\ DOMAIN row = {"key", "value"}
                  /\ row.key = unitIn.ListingItemObjectDatas[i].key
                  /\ row.value = unitIn.ListingItemObjectDatas[i].value

\* a TABLE object with two different rows has been encoded and decoded
C12_Witness ==
    /\ pc = "object.model"
    /\ unitIn.type = "TABLE"
    /\ Len(unitIn.ListingItemObjectDatas) = 2
    /\ unitIn.ListingItemObjectDatas[1] # unitIn.ListingItemObjectDatas[2]
    /\ unitOut.model.ok
    /\ unitOut.model.val[1].listingItemObjectDatas = unitIn.ListingItemObjectDatas


\* C13: every create request built from a received message carries the delivery
\* metadata as given: seller is the sender, market_id the market id, expiryTime the
\* retention, postedAt the sent time, expiredAt the expiration time and receivedAt
\* the received time, whatever the wire message holds.
C13_DeliveryMetadataIsCarried ==
    (pc = "decomposed" /\ request.ok) =>
        /\ request.val.seller = received.smsgMessage.from
        /\ request.val.market_id = received.marketId
        /\ request.val.expiryTime = received.smsgMessage.daysretention
        /\ request.val.postedAt = received.smsgMessage.sent
        /\ request.val.expiredAt = received.smsgMessage.expiration
        /\ request.val.receivedAt = received.smsgMessage.received

\* a message with two images and no crypto address, sent by bob on market 2, has
\* been made a create request
C13_Witness ==
    /\ pc = "decomposed"
    /\ request.ok
    /\ received.smsgMessage.from = "bob"
    /\ received.marketId = "2"
    /\ Len(ReceivedMessage.information.images) = 2
    /\ ~Has(ReceivedOption, "address")
    /\ request.val.seller = "bob"
    /\ request.val.postedAt = "2000"


\* the loadImageFile call C4 says is made for an image
ExpectedCall(image) ==
    [imageHash |-> ExpectedVariant(image.ItemImageDatas).imageHash,
     imageVersion |-> ExpectedVariant(image.ItemImageDatas).imageVersion]

\* the i-th loadImageFile call returned the file
CallLoaded(i) == <<calls[i].imageHash, calls[i].imageVersion>> \in store

ComposedImages == composed.val.item.information.images

\* C14: the loadImageFile calls of one composition are those of the first images of
\* the template, one for each, in the template's order, also when images share a
\* hash; no call follows a call that failed, the calls stop before the end of the list
\* only at an image with no variant to select or after a failed call, and then no
\* message is returned; a returned message has the template's images, as many and in
\* the same order.
C14_CallsFollowTheImageList ==
    pc = "composed" =>
        /\ Len(calls) <= Len(TemplateImages)
        /\ \A i \in 1..Len(calls) :
              /\ Selectable(TemplateImages[i].ItemImageDatas)
              /\ calls[i] = ExpectedCall(TemplateImages[i])
        /\ \A i \in 1..(Len(calls) - 1) : CallLoaded(i)
        /\ (Len(calls) > 0 /\ ~CallLoaded(Len(calls))) =>
              ~composed.ok /\ composed.err = PayloadResolutionFailed
        /\ Len(calls) < Len(TemplateImages) =>
              /\ ~composed.ok
              /\ categoryOk =>
                    \/ Len(calls) > 0 /\ ~CallLoaded(Len(calls))
                    \/ /\ Unselectable(TemplateImages[Len(calls) + 1])
                       /\ composed.err = ImagePayloadMissing
        /\ composed.ok =>
              /\ Len(calls) = Len(TemplateImages)
              /\ Len(ComposedImages) = Len(TemplateImages)
              /\ \A i \in 1..Len(TemplateImages) :
                    /\ ComposedImages[i].hash = TemplateImages[i].hash
                    /\ ComposedImages[i].data[1].id
                          = ExpectedVariant(TemplateImages[i].ItemImageDatas).dataId

\* two images with the same hash and the same variants, loadImageFile called for
\* each, and both in the composed message
C14_Witness ==
    /\ pc = "composed"
    /\ Len(TemplateImages) = 2
    /\ TemplateImages[1] = TemplateImages[2]
    /\ Len(calls) = 2
    /\ calls[1] = calls[2]
    /\ composed.ok
    /\ Len(ComposedImages) = 2


\* what the call of composition t returns when it is the only call in progress
Alone(t) ==
    IF tasks[t].kind = "get"
    THEN get([template |-> tasks[t].input], store, categoryOk)
    ELSE [res |-> getModel(tasks[t].input.listingItemMessage, tasks[t].input.smsgMessage,
                           tasks[t].input.marketId, tasks[t].input.rootCategory,
                           categoryOk),
          calls |-> <<>>]

\* C15: with the steps and the loadImageFile calls of two calls of get or getModel
\* taken in any order, each call returns the result, or the failure, it returns when
\* it is the only call in progress, after the same loadImageFile calls.
C15_InterleavedAsAlone ==
    \A t \in Compositions :
        tasks[t].at = "done" =>
            [res |-> tasks[t].result, calls |-> tasks[t].calls] = Alone(t)

\* two calls of get, on different templates of two images each, one returned with
\* its message while the other waits for loadImageFile on its second image
C15_Witness ==
    /\ tasks["a"].kind = "get"
    /\ tasks["b"].kind = "get"
    /\ tasks["a"].input # tasks["b"].input
    /\ Len(tasks["a"].input.ItemInformation.ItemImages) = 2
    /\ Len(tasks["b"].input.ItemInformation.ItemImages) = 2
    /\ tasks["a"].at = "done"
    /\ tasks["a"].result.ok
    /\ Len(tasks["a"].result.val.item.information.images) = 2
    /\ tasks["b"].at = "loading"
    /\ tasks["b"].i = 2

============================================================================
